---- MODULE Spec2Model ----
(***************************************************************************)
(* The CanSat simulation front-ends: CansatTerminal.py (an interactive     *)
(* script) and flask_app.py (a one-route web server), both around the      *)
(* rocketpy engine and matplotlib.                                         *)
(*                                                                         *)
(* The engine is opaque: each of its calls either returns or raises, and   *)
(* the solution it hands back is any matrix within the bounds below.       *)
(* Numbers are fixed-point integers in thousandths (0.3 is 300).           *)
(* Strings typed by the user are sequences of one-character strings.       *)
(*                                                                         *)
(* Spec      the two programs as shipped: python CansatTerminal.py, or     *)
(*           the server process answering requests to "/".                 *)
(* SpecUnits the same, plus two units entered on their own with every      *)
(*           input: get_float_input called once, and the part of           *)
(*           ejecutar_simulacion_y_graficar that follows the evaluation of *)
(*           the Rocket arguments (flask_app.py lines 89-190).  As shipped *)
(*           that evaluation raises NameError on every request (see        *)
(*           SrvRocketArgs), so the rest of the function is reached under  *)
(*           SpecUnits only.                                               *)
(***************************************************************************)
EXTENDS Integers, Sequences, FiniteSets, TLC

VARIABLES
    entry,      \* which program or unit runs: "terminal", "server", "flight", "intake"
    pc,         \* position in the code
    param,      \* terminal: index (1..8) of the parameter being asked
    value_str,  \* get_float_input: the string input() returned
    seen,       \* get_float_input: class of every string read in this call
    prompts,    \* get_float_input: prompts written in this call
    diags,      \* get_float_input: "Entrada invalida" lines written in this call
    result,     \* get_float_input: <<>> or <<returned value>>
    user,       \* terminal: the values returned by the calls made so far
    env,        \* rp.Environment descriptor
    motor,      \* rp.SolidMotor descriptor
    rocket,     \* rp.Rocket descriptor
    flight,     \* rp.Flight object and what the engine answers through it
    colReads,   \* column indices of solution_array evaluated in this run
    figs,       \* pyplot's figure registry, in creation order (current = last)
    file,       \* terminal: <<>> or <<the PNG written by plt.savefig>>
    shown,      \* terminal: the figures plt.show() displayed
    exc,        \* the exception in flight: [kind, at] or NoExc
    frag,       \* server: the HTML fragment ejecutar_simulacion_y_graficar returned
    response,   \* server: <<>> or <<the document home() returned to the last request>>
    served      \* server: requests answered so far

vars == <<entry, pc, param, value_str, seen, prompts, diags, result, user,
          env, motor, rocket, flight, colReads, figs, file, shown, exc,
          frag, response, served>>

(***************************************************************************)
(* Bounds of the model.                                                    *)
(***************************************************************************)
MaxLen == 3        \* longest string typed at a prompt
MaxPrompts == 3    \* prompts of one get_float_input call
MaxRows == 3       \* rows of the engine's solution
MaxCols == 7       \* columns of the engine's solution
MaxSeed == 1       \* distinct contents of a solution of one shape
MaxRequests == 3   \* requests the server answers

(***************************************************************************)
(* Strings and float().                                                    *)
(***************************************************************************)
Chars == {"-", ".", "0", "2", "x", " "}

Digits == {"0", "2"}

RECURSIVE StringsUpTo(_)
StringsUpTo(n) ==
    IF n = 0 THEN {<<>>}
    ELSE LET S == StringsUpTo(n - 1)
         IN  S \cup {Append(s, c) : s \in {t \in S : Len(t) = n - 1}, c \in Chars}

Strings == StringsUpTo(MaxLen)

DigitVal(c) == IF c = "2" THEN 2 ELSE 0

RECURSIVE LStrip(_)
LStrip(s) == IF s # <<>> /\ Head(s) = " " THEN LStrip(Tail(s)) ELSE s

RECURSIVE RStrip(_)
RStrip(s) ==
    IF s # <<>> /\ s[Len(s)] = " " THEN RStrip(SubSeq(s, 1, Len(s) - 1)) ELSE s

Strip(s) == RStrip(LStrip(s))

Unsigned(s) == IF s # <<>> /\ Head(s) = "-" THEN Tail(s) ELSE s

DotAt(s) == {i \in 1..Len(s) : s[i] = "."}

\* float() accepts: optional blanks, an optional sign, digits with at most
\* one point and at least one digit, optional blanks.
IsFloat(s) ==
    LET b == Unsigned(Strip(s))
    IN  /\ \A i \in 1..Len(b) : b[i] \in Digits \cup {"."}
        /\ Cardinality(DotAt(b)) <= 1
        /\ \E i \in 1..Len(b) : b[i] \in Digits

RECURSIVE IntOf(_)
IntOf(s) == IF s = <<>> THEN 0 ELSE IntOf(SubSeq(s, 1, Len(s) - 1)) * 10 + DigitVal(s[Len(s)])

Pow10(n) == IF n >= 3 THEN 1000 ELSE IF n = 2 THEN 100 ELSE IF n = 1 THEN 10 ELSE 1

\* The value of a string float() accepts, in thousandths.
ParseFloat(s) ==
    LET t == Strip(s)
        b == Unsigned(t)
        d == IF DotAt(b) = {} THEN Len(b) + 1 ELSE CHOOSE i \in DotAt(b) : TRUE
        ip == SubSeq(b, 1, d - 1)
        fp == SubSeq(b, d + 1, Len(b))
        mag == IntOf(ip) * 1000 + (IntOf(fp) * 1000) \div Pow10(Len(fp))
    IN  IF t # b THEN 0 - mag ELSE mag

(***************************************************************************)
(* Defaults (thousandths), in the order the terminal asks for them.        *)
(***************************************************************************)
default_inclination == 90000
default_heading == 0
default_rail_length == 1200
default_cansat_mass == 300
default_drag_coeff == 600
default_burn_time == 2000
default_avg_thrust == 10000
default_elevation == 20000

Defaults == <<default_inclination, default_heading, default_rail_length,
              default_cansat_mass, default_drag_coeff, default_burn_time,
              default_avg_thrust, default_elevation>>

NParams == Len(Defaults)

(***************************************************************************)
(* The engine's answers.                                                   *)
(***************************************************************************)
NoExc == [kind |-> "", at |-> ""]

NoObj == [made |-> FALSE]

NoFlight == [made |-> FALSE, kind |-> "none", rows |-> 0, cols |-> 0, seed |-> 0,
             hasZPlot |-> FALSE, hasPostProcess |-> FALSE, apogeeRead |-> FALSE,
             postProcessed |-> FALSE]

\* flight.solution: None, an object without source_raw, or a matrix.
Matrices == [kind : {"matrix"}, rows : 0..MaxRows, cols : 0..MaxCols, seed : 1..MaxSeed]

Solutions == Matrices \cup
             {[kind |-> k, rows |-> 0, cols |-> 0, seed |-> 0] : k \in {"none", "noraw"}}

\* The entry of row r (1-based), column c (0-based, as the code indexes it).
Cell(sol, r, c) == sol.seed * 1000 + r * 20 + c

\* solution_array[:, c]
Column(sol, c) == [r \in 1..sol.rows |-> Cell(sol, r, c)]

\* solution_array.size
Size(sol) == sol.rows * sol.cols

Trace(xs, ys, zs, label) == [x |-> xs, y |-> ys, z |-> zs, label |-> label]

Figure(kind, traces) == [kind |-> kind, traces |-> traces]

\* The current figure gets one more line.
PlotOnCurrent(fs, tr) ==
    [fs EXCEPT ![Len(fs)] = Figure(fs[Len(fs)].kind, Append(fs[Len(fs)].traces, tr))]

(***************************************************************************)
(* get_float_input (CansatTerminal.py 8-19).                               *)
(***************************************************************************)
Class(s) == IF s = <<>> THEN "empty" ELSE IF IsFloat(s) THEN "float" ELSE "invalid"

\* What the terminal user types in the model of a whole run.
TermStrings == {<<>>, <<"x">>, <<"-", "2">>}

Typed == IF entry = "intake" THEN Strings ELSE TermStrings

default_value == Defaults[param]

IntakeVars == <<value_str, seen, prompts, diags, result>>

RestVars == <<env, motor, rocket, flight, colReads, figs, file, shown, exc,
              frag, response, served>>

\* line 13: the prompt is written and input() returns a line
GfiPrompt ==
    /\ pc = "gfi_prompt"
    /\ prompts < MaxPrompts
    /\ \E s \in Typed :
          /\ value_str' = s
          /\ seen' = Append(seen, Class(s))
    /\ prompts' = prompts + 1
    /\ pc' = "gfi_read"
    /\ UNCHANGED <<entry, param, diags, result, user, RestVars>>

\* line 13: standard input is closed; EOFError is no ValueError and leaves
\* the function and the script
GfiEOF ==
    /\ pc = "gfi_prompt"
    /\ prompts < MaxPrompts
    /\ prompts' = prompts + 1
    /\ exc' = [kind |-> "EOFError", at |-> "intake"]
    /\ pc' = "crashed"
    /\ UNCHANGED <<entry, param, value_str, seen, diags, result, user, env, motor,
                   rocket, flight, colReads, figs, file, shown, frag, response, served>>

\* lines 15-16
GfiEmpty ==
    /\ pc = "gfi_read"
    /\ value_str = <<>>
    /\ result' = <<default_value>>
    /\ pc' = "gfi_ret"
    /\ UNCHANGED <<entry, param, value_str, seen, prompts, diags, user, RestVars>>

\* GfiFloat with a range check: a negative value is refused like a
\* non-numeric string
GfiFloatRanged ==
    /\ pc = "gfi_read"
    /\ value_str # <<>>
    /\ IsFloat(value_str)
    /\ IF ParseFloat(value_str) < 0
          THEN diags' = diags + 1 /\ pc' = "gfi_prompt" /\ result' = result
          ELSE diags' = diags /\ pc' = "gfi_ret" /\ result' = <<ParseFloat(value_str)>>
    /\ UNCHANGED <<entry, param, value_str, seen, prompts, user, RestVars>>

\* line 17, float() accepts the string
GfiFloat ==
    /\ pc = "gfi_read"
    /\ value_str # <<>>
    /\ IsFloat(value_str)
    /\ result' = <<ParseFloat(value_str)>>
    /\ pc' = "gfi_ret"
    /\ UNCHANGED <<entry, param, value_str, seen, prompts, diags, user, RestVars>>

\* GfiInvalid with "except ValueError: return default_value"
GfiInvalidReturnsDefault ==
    /\ pc = "gfi_read"
    /\ value_str # <<>>
    /\ ~IsFloat(value_str)
    /\ result' = <<default_value>>
    /\ pc' = "gfi_ret"
    /\ UNCHANGED <<entry, param, value_str, seen, prompts, diags, user, RestVars>>

\* lines 17-19, float() raises ValueError: one diagnostic, then the loop again
GfiInvalid ==
    /\ pc = "gfi_read"
    /\ value_str # <<>>
    /\ ~IsFloat(value_str)
    /\ diags' = diags + 1
    /\ pc' = "gfi_prompt"
    /\ UNCHANGED <<entry, param, value_str, seen, prompts, result, user, RestVars>>

(***************************************************************************)
(* CansatTerminal.py, the script.                                          *)
(***************************************************************************)
\* lines 33-41: the returned value is bound; the next call, or assembly
TermAssign ==
    /\ entry = "terminal"
    /\ pc = "gfi_ret"
    /\ user' = Append(user, result[1])
    /\ value_str' = <<>>
    /\ seen' = <<>>
    /\ prompts' = 0
    /\ diags' = 0
    /\ result' = <<>>
    /\ IF param < NParams
          THEN param' = param + 1 /\ pc' = "gfi_prompt"
          ELSE param' = param /\ pc' = "env"
    /\ UNCHANGED <<entry, RestVars>>

TermEnginePcs == {"env", "motor", "rocket", "flight", "apogee"}

\* an engine call outside any try raises: the script ends with a traceback
TermRaise ==
    /\ entry = "terminal"
    /\ pc \in TermEnginePcs
    /\ exc' = [kind |-> "EngineError", at |-> pc]
    /\ pc' = "crashed"
    /\ UNCHANGED <<entry, param, IntakeVars, user, env, motor, rocket, flight,
                   colReads, figs, file, shown, frag, response, served>>

\* lines 44-51
TermEnv ==
    /\ entry = "terminal"
    /\ pc = "env"
    /\ env' = [made |-> TRUE, elevation |-> user[8]]
    /\ pc' = "motor"
    /\ UNCHANGED <<entry, param, IntakeVars, user, motor, rocket, flight,
                   colReads, figs, file, shown, exc, frag, response, served>>

\* lines 54-72
TermMotor ==
    /\ entry = "terminal"
    /\ pc = "motor"
    /\ motor' = [made |-> TRUE, thrust |-> <<user[7]>>, burn_time |-> user[6]]
    /\ pc' = "rocket"
    /\ UNCHANGED <<entry, param, IntakeVars, user, env, rocket, flight,
                   colReads, figs, file, shown, exc, frag, response, served>>

\* lines 75-87
TermRocket ==
    /\ entry = "terminal"
    /\ pc = "rocket"
    /\ rocket' = [made |-> TRUE, mass |-> user[4], power_off_drag |-> user[5],
                  power_on_drag |-> user[5]]
    /\ pc' = "flight"
    /\ UNCHANGED <<entry, param, IntakeVars, user, env, motor, flight,
                   colReads, figs, file, shown, exc, frag, response, served>>

\* lines 90-96: the flight is built; its solution is the engine's
TermFlight ==
    /\ entry = "terminal"
    /\ pc = "flight"
    /\ \E m \in Matrices :
          flight' = [made |-> TRUE, kind |-> m.kind, rows |-> m.rows, cols |-> m.cols,
                     seed |-> m.seed, hasZPlot |-> FALSE, hasPostProcess |-> FALSE,
                     apogeeRead |-> FALSE, postProcessed |-> FALSE]
    /\ pc' = "apogee"
    /\ UNCHANGED <<entry, param, IntakeVars, user, env, motor, rocket,
                   colReads, figs, file, shown, exc, frag, response, served>>

\* line 103
TermApogee ==
    /\ entry = "terminal"
    /\ pc = "apogee"
    /\ flight' = [flight EXCEPT !.apogeeRead = TRUE]
    /\ pc' = "solution"
    /\ UNCHANGED <<entry, param, IntakeVars, user, env, motor, rocket,
                   colReads, figs, file, shown, exc, frag, response, served>>

\* lines 105-109: the only check is size == 0
TermSolution ==
    /\ entry = "terminal"
    /\ pc = "solution"
    /\ pc' = IF Size(flight) = 0 THEN "exit_warning" ELSE "figure"
    /\ UNCHANGED <<entry, param, IntakeVars, user, RestVars>>

\* lines 106, 110-114: reading the solution raises; the message, then exit()
TermSolutionRaise ==
    /\ entry = "terminal"
    /\ pc = "solution"
    /\ pc' = "exit_error"
    /\ UNCHANGED <<entry, param, IntakeVars, user, RestVars>>

\* an index past the matrix's columns: IndexError, outside any try
TermIndexError(at, cs) ==
    /\ colReads' = colReads \cup cs
    /\ exc' = [kind |-> "IndexError", at |-> at]
    /\ pc' = "crashed"
    /\ UNCHANGED <<figs>>

InRange(cs) == \A c \in cs : c < flight.cols

\* lines 118-119: plt.figure, the new current figure
TermFigure ==
    /\ entry = "terminal"
    /\ pc = "figure"
    /\ figs' = Append(figs, Figure("ts", <<>>))
    /\ pc' = "plot_alt"
    /\ UNCHANGED <<entry, param, IntakeVars, user, env, motor, rocket, flight,
                   colReads, file, shown, exc, frag, response, served>>

\* lines 120-122: altitude against time
TermPlotAlt ==
    /\ entry = "terminal"
    /\ pc = "plot_alt"
    /\ IF InRange({0, 3})
          THEN /\ colReads' = colReads \cup {0, 3}
               /\ figs' = PlotOnCurrent(figs, Trace(Column(flight, 0), Column(flight, 3),
                                                    <<>>, "Altitud (z)"))
               /\ pc' = "plot_vel"
               /\ exc' = exc
          ELSE TermIndexError("plot_alt", {0, 3})
    /\ UNCHANGED <<entry, param, IntakeVars, user, env, motor, rocket, flight,
                   file, shown, frag, response, served>>

\* TermPlotVel drawing vy (column 5) in place of vz (column 6)
TermPlotVelColumn5 ==
    /\ entry = "terminal"
    /\ pc = "plot_vel"
    /\ IF InRange({0, 6})
          THEN /\ colReads' = colReads \cup {0, 5}
               /\ figs' = PlotOnCurrent(figs, Trace(Column(flight, 0), Column(flight, 5),
                                                    <<>>, "Velocidad Vertical (vz)"))
               /\ pc' = "plot_3d"
               /\ exc' = exc
          ELSE TermIndexError("plot_vel", {0, 6})
    /\ UNCHANGED <<entry, param, IntakeVars, user, env, motor, rocket, flight,
                   file, shown, frag, response, served>>

\* lines 123-127: vertical velocity against time
TermPlotVel ==
    /\ entry = "terminal"
    /\ pc = "plot_vel"
    /\ IF InRange({0, 6})
          THEN /\ colReads' = colReads \cup {0, 6}
               /\ figs' = PlotOnCurrent(figs, Trace(Column(flight, 0), Column(flight, 6),
                                                    <<>>, "Velocidad Vertical (vz)"))
               /\ pc' = "plot_3d"
               /\ exc' = exc
          ELSE TermIndexError("plot_vel", {0, 6})
    /\ UNCHANGED <<entry, param, IntakeVars, user, env, motor, rocket, flight,
                   file, shown, frag, response, served>>

\* lines 131-139: the columns are read, then a second figure becomes current
TermPlot3D ==
    /\ entry = "terminal"
    /\ pc = "plot_3d"
    /\ IF InRange({1, 2, 3})
          THEN /\ colReads' = colReads \cup {1, 2, 3}
               /\ figs' = Append(figs,
                                 Figure("3d", <<Trace(Column(flight, 1), Column(flight, 2),
                                                      Column(flight, 3),
                                                      "Trayectoria del CanSat")>>))
               /\ pc' = "save"
               /\ exc' = exc
          ELSE TermIndexError("plot_3d", {1, 2, 3})
    /\ UNCHANGED <<entry, param, IntakeVars, user, env, motor, rocket, flight,
                   file, shown, frag, response, served>>

\* datetime.now(): <<year, month, day, hour, minute, second>>
Clocks == {<<2025, 5, 3, 22, 52, 0>>, <<2026, 11, 3, 9, 5, 7>>}

DigitChar(d) == CASE d = 0 -> "0" [] d = 1 -> "1" [] d = 2 -> "2" [] d = 3 -> "3"
                  [] d = 4 -> "4" [] d = 5 -> "5" [] d = 6 -> "6" [] d = 7 -> "7"
                  [] d = 8 -> "8" [] OTHER -> "9"

\* n in decimal, zero-padded to w digits (%Y, %m, %d, %H, %M, %S)
RECURSIVE Pad(_, _)
Pad(n, w) == IF w = 0 THEN <<>> ELSE Append(Pad(n \div 10, w - 1), DigitChar(n % 10))

\* strftime("%Y%m%d_%H%M%S") + '.png'
generate_file_name_custom(now) ==
    Pad(now[1], 4) \o Pad(now[2], 2) \o Pad(now[3], 2) \o <<"_">> \o
    Pad(now[4], 2) \o Pad(now[5], 2) \o Pad(now[6], 2) \o <<".png">>

\* plt.savefig writes the current figure, the one created last
Savefig(fs, name) == [name |-> name, figures |-> <<fs[Len(fs)]>>]

\* lines 142-143
TermSave ==
    /\ entry = "terminal"
    /\ pc = "save"
    /\ \E now \in Clocks : file' = <<Savefig(figs, generate_file_name_custom(now))>>
    /\ pc' = "show"
    /\ UNCHANGED <<entry, param, IntakeVars, user, env, motor, rocket, flight,
                   colReads, figs, shown, exc, frag, response, served>>

\* line 146: plt.show() displays every open figure
TermShow ==
    /\ entry = "terminal"
    /\ pc = "show"
    /\ shown' = figs
    /\ pc' = "done"
    /\ UNCHANGED <<entry, param, IntakeVars, user, env, motor, rocket, flight,
                   colReads, figs, file, exc, frag, response, served>>

(***************************************************************************)
(* flask_app.py.                                                           *)
(***************************************************************************)
NoFrag == [words |-> <<>>, images |-> <<>>]

\* plt.close(fig): the figure leaves the registry
Close(fs, i) == SubSeq(fs, 1, i - 1) \o SubSeq(fs, i + 1, Len(fs))

\* fig_to_base64 (lines 20-28): the PNG of the figure, and the registry
\* after plt.close(fig)
fig_to_base64(fs, i) == [image |-> fs[i], figs |-> Close(fs, i)]

\* names the module binds (lines 1-17, 20, 31, 194)
GlobalNames == {"Flask", "render_template_string", "rp", "np", "matplotlib", "plt",
                "Axes3D", "datetime", "io", "base64", "traceback", "app",
                "fig_to_base64", "ejecutar_simulacion_y_graficar", "home"}

\* names the function has bound when line 89 is reached (lines 38-87)
LocalNames == {"default_inclination", "default_heading", "default_rail_length",
               "default_cansat_mass", "default_drag_coeff", "default_burn_time",
               "default_avg_thrust", "default_elevation", "inclination", "heading",
               "rail_length", "cansat_mass", "drag_coeff", "burn_time", "avg_thrust",
               "elevation", "env", "simulation_datetime", "thrust_curve", "GasMotor",
               "cansat_radius"}

\* names read by the argument expressions of rp.Rocket(...) (lines 89-103);
\* inertia_Iz = ... and inertia_IxIy = ... there are keyword arguments and
\* bind nothing
RocketArgNames == {"rp", "GasMotor", "cansat_radius", "cansat_mass", "inertia_IxIy",
                   "inertia_Iz", "drag_coeff"}

NamesResolve == RocketArgNames \subseteq (LocalNames \cup GlobalNames)

\* line 196: a request to "/" enters ejecutar_simulacion_y_graficar (36-56)
SrvRequest ==
    /\ entry = "server"
    /\ pc = "idle"
    /\ served < MaxRequests
    /\ env' = NoObj /\ motor' = NoObj /\ rocket' = NoObj /\ flight' = NoFlight
    /\ colReads' = {} /\ exc' = NoExc /\ frag' = NoFrag /\ response' = <<>>
    /\ pc' = "srv_env"
    /\ UNCHANGED <<entry, param, IntakeVars, user, figs, file, shown, served>>

\* the rest of the function entered on its own, the environment and the
\* motor assembled from the defaults
UnitEnter ==
    /\ entry = "flight"
    /\ pc = "idle"
    /\ served < MaxRequests
    /\ env' = [made |-> TRUE, elevation |-> default_elevation]
    /\ motor' = [made |-> TRUE,
                 thrust |-> <<<<0, default_avg_thrust>>,
                              <<default_burn_time, default_avg_thrust>>>>,
                 burn_time |-> default_burn_time]
    /\ rocket' = NoObj /\ flight' = NoFlight
    /\ colReads' = {} /\ exc' = NoExc /\ frag' = NoFrag /\ response' = <<>>
    /\ pc' = "srv_rocket"
    /\ UNCHANGED <<entry, param, IntakeVars, user, figs, file, shown, served>>

\* lines 57-63
SrvEnv ==
    /\ pc = "srv_env"
    /\ env' = [made |-> TRUE, elevation |-> default_elevation]
    /\ pc' = "srv_motor"
    /\ UNCHANGED <<entry, param, IntakeVars, user, motor, rocket, flight, colReads,
                   figs, file, shown, exc, frag, response, served>>

\* lines 65-83
SrvMotor ==
    /\ pc = "srv_motor"
    /\ motor' = [made |-> TRUE,
                 thrust |-> <<<<0, default_avg_thrust>>,
                              <<default_burn_time, default_avg_thrust>>>>,
                 burn_time |-> default_burn_time]
    /\ pc' = "srv_rocket_args"
    /\ UNCHANGED <<entry, param, IntakeVars, user, env, rocket, flight, colReads,
                   figs, file, shown, exc, frag, response, served>>

\* lines 85-103: the arguments of rp.Rocket are evaluated before the call;
\* a name bound nowhere raises NameError
SrvRocketArgs ==
    /\ pc = "srv_rocket_args"
    /\ IF NamesResolve
          THEN pc' = "srv_rocket" /\ exc' = exc
          ELSE pc' = "srv_except" /\ exc' = [kind |-> "NameError", at |-> "rocket_args"]
    /\ UNCHANGED <<entry, param, IntakeVars, user, env, motor, rocket, flight, colReads,
                   figs, file, shown, frag, response, served>>

\* the engine calls inside the try; flight.z.plot is one when flight has it
SrvEnginePcs == {"srv_env", "srv_motor", "srv_rocket", "srv_flight", "srv_apogee",
                 "srv_post_process"}
                \cup (IF flight.hasZPlot THEN {"srv_plot_alt"} ELSE {})

\* an engine call raises: control goes to the except clause of line 186
SrvRaise ==
    /\ pc \in SrvEnginePcs
    /\ exc' = [kind |-> "EngineError", at |-> pc]
    /\ pc' = "srv_except"
    /\ UNCHANGED <<entry, param, IntakeVars, user, env, motor, rocket, flight, colReads,
                   figs, file, shown, frag, response, served>>

\* lines 89-107
SrvRocket ==
    /\ pc = "srv_rocket"
    /\ rocket' = [made |-> TRUE, mass |-> default_cansat_mass,
                  power_off_drag |-> default_drag_coeff,
                  power_on_drag |-> default_drag_coeff]
    /\ pc' = "srv_flight"
    /\ UNCHANGED <<entry, param, IntakeVars, user, env, motor, flight, colReads,
                   figs, file, shown, exc, frag, response, served>>

\* lines 109-118
SrvFlight ==
    /\ pc = "srv_flight"
    /\ \E sol \in Solutions, z \in BOOLEAN, pp \in BOOLEAN :
          flight' = [made |-> TRUE, kind |-> sol.kind, rows |-> sol.rows,
                     cols |-> sol.cols, seed |-> sol.seed, hasZPlot |-> z,
                     hasPostProcess |-> pp, apogeeRead |-> FALSE,
                     postProcessed |-> FALSE]
    /\ pc' = "srv_apogee"
    /\ UNCHANGED <<entry, param, IntakeVars, user, env, motor, rocket, colReads,
                   figs, file, shown, exc, frag, response, served>>

\* line 120
SrvApogee ==
    /\ pc = "srv_apogee"
    /\ flight' = [flight EXCEPT !.apogeeRead = TRUE]
    /\ pc' = "srv_check"
    /\ UNCHANGED <<entry, param, IntakeVars, user, env, motor, rocket, colReads,
                   figs, file, shown, exc, frag, response, served>>

\* the condition of lines 123 and 129
Degenerate(f) == f.kind = "none" \/ f.kind = "noraw" \/ f.rows <= 1

\* lines 123-125
SrvCheck ==
    /\ pc = "srv_check"
    /\ pc' = IF Degenerate(flight)
                THEN IF flight.hasPostProcess THEN "srv_post_process" ELSE "srv_recheck"
                ELSE "srv_array"
    /\ UNCHANGED <<entry, param, IntakeVars, user, RestVars>>

\* lines 126-127: flight.post_process() may leave another solution behind
SrvPostProcess ==
    /\ pc = "srv_post_process"
    /\ \E sol \in Solutions :
          flight' = [flight EXCEPT !.kind = sol.kind, !.rows = sol.rows,
                                   !.cols = sol.cols, !.seed = sol.seed,
                                   !.postProcessed = TRUE]
    /\ pc' = "srv_recheck"
    /\ UNCHANGED <<entry, param, IntakeVars, user, env, motor, rocket, colReads,
                   figs, file, shown, exc, frag, response, served>>

ErrorNoResults == [words |-> <<"Error", ":", "La", "simulacion", "no", "produjo",
                               "resultados", "graficables", ".", "Apogeo">>,
                   images |-> <<>>]

WarningNoResults == [words |-> <<"ADVERTENCIA", ":", "La", "simulacion", "no", "produjo",
                                 "resultados", "validos", ".", "Apogeo">>,
                     images |-> <<>>]

\* SrvRecheck building the flight again when the result is still degenerate
SrvRecheckRetry ==
    /\ pc = "srv_recheck"
    /\ IF Degenerate(flight)
          THEN frag' = frag /\ pc' = "srv_flight"
          ELSE frag' = frag /\ pc' = "srv_array"
    /\ UNCHANGED <<entry, param, IntakeVars, user, env, motor, rocket, flight, colReads,
                   figs, file, shown, exc, response, served>>

\* lines 129-132
SrvRecheck ==
    /\ pc = "srv_recheck"
    /\ IF Degenerate(flight)
          THEN frag' = ErrorNoResults /\ pc' = "srv_home"
          ELSE frag' = frag /\ pc' = "srv_array"
    /\ UNCHANGED <<entry, param, IntakeVars, user, env, motor, rocket, flight, colReads,
                   figs, file, shown, exc, response, served>>

\* lines 134-143
SrvArray ==
    /\ pc = "srv_array"
    /\ IF Size(flight) = 0 \/ flight.rows <= 1
          THEN frag' = WarningNoResults /\ pc' = "srv_home"
          ELSE /\ frag' = [words |-> <<"Simulacion", "Completada", "Apogeo">>,
                           images |-> <<>>]
               /\ pc' = "srv_fig_alt"
    /\ UNCHANGED <<entry, param, IntakeVars, user, env, motor, rocket, flight, colReads,
                   figs, file, shown, exc, response, served>>

\* line 146: plt.subplots, a figure enters the registry
SrvFigAlt ==
    /\ pc = "srv_fig_alt"
    /\ figs' = Append(figs, Figure("alt", <<>>))
    /\ pc' = "srv_plot_alt"
    /\ UNCHANGED <<entry, param, IntakeVars, user, env, motor, rocket, flight, colReads,
                   file, shown, exc, frag, response, served>>

\* lines 148-157: flight.z.plot draws the engine's own z(t); the fallback
\* reads columns 0 and 3 of the matrix
SrvPlotAlt ==
    /\ pc = "srv_plot_alt"
    /\ IF flight.hasZPlot
          THEN /\ figs' = PlotOnCurrent(figs, Trace(<<>>, <<>>, <<>>, "Altitud (z vs t)"))
               /\ colReads' = colReads
               /\ exc' = exc
               /\ pc' = "srv_encode_alt"
          ELSE /\ colReads' = colReads \cup {0, 3}
               /\ IF InRange({0, 3})
                     THEN /\ figs' = PlotOnCurrent(figs, Trace(Column(flight, 0),
                                                               Column(flight, 3), <<>>,
                                                               "Altitud (z)"))
                          /\ exc' = exc
                          /\ pc' = "srv_encode_alt"
                     ELSE /\ figs' = figs
                          /\ exc' = [kind |-> "IndexError", at |-> "srv_plot_alt"]
                          /\ pc' = "srv_except"
    /\ UNCHANGED <<entry, param, IntakeVars, user, env, motor, rocket, flight,
                   file, shown, frag, response, served>>

\* lines 159-160: fig_alt is the figure created last
SrvEncodeAlt ==
    /\ pc = "srv_encode_alt"
    /\ LET r == fig_to_base64(figs, Len(figs))
       IN  /\ figs' = r.figs
           /\ frag' = [words |-> frag.words \o <<"Altitud", "vs", "Tiempo">>,
                       images |-> Append(frag.images, r.image)]
    /\ pc' = "srv_3d"
    /\ UNCHANGED <<entry, param, IntakeVars, user, env, motor, rocket, flight, colReads,
                   file, shown, exc, response, served>>

\* lines 163-176, 180-181
Srv3D ==
    /\ pc = "srv_3d"
    /\ IF flight.cols > 3
          THEN /\ colReads' = colReads \cup {1, 2, 3}
               /\ figs' = Append(figs,
                                 Figure("3d", <<Trace(Column(flight, 1), Column(flight, 2),
                                                      Column(flight, 3),
                                                      "Trayectoria del CanSat")>>))
               /\ frag' = frag
               /\ pc' = "srv_encode_3d"
          ELSE /\ colReads' = colReads
               /\ figs' = figs
               /\ frag' = [frag EXCEPT !.words = @ \o <<"No", "hay", "suficientes", "datos",
                                                        "para", "la", "trayectoria", "3D">>]
               /\ pc' = "srv_success"
    /\ UNCHANGED <<entry, param, IntakeVars, user, env, motor, rocket, flight,
                   file, shown, exc, response, served>>

\* lines 178-179: fig3d is the figure created last
SrvEncode3D ==
    /\ pc = "srv_encode_3d"
    /\ LET r == fig_to_base64(figs, Len(figs))
       IN  /\ figs' = r.figs
           /\ frag' = [words |-> frag.words \o <<"Trayectoria", "3D">>,
                       images |-> Append(frag.images, r.image)]
    /\ pc' = "srv_success"
    /\ UNCHANGED <<entry, param, IntakeVars, user, env, motor, rocket, flight, colReads,
                   file, shown, exc, response, served>>

\* lines 183-184
SrvSuccess ==
    /\ pc = "srv_success"
    /\ pc' = "srv_home"
    /\ UNCHANGED <<entry, param, IntakeVars, user, RestVars>>

\* the fragment of line 190
ErrorFragment(e) == [words |-> <<"Error", "en", "la", "Simulacion", "Ha", "ocurrido",
                                 "un", "error", ":", e.kind>>,
                     images |-> <<>>]

\* SrvExcept as "except ValueError": any other exception leaves the view
SrvExceptNarrow ==
    /\ pc = "srv_except"
    /\ IF exc.kind = "ValueError"
          THEN frag' = ErrorFragment(exc) /\ pc' = "srv_home"
          ELSE frag' = frag /\ pc' = "crashed"
    /\ UNCHANGED <<entry, param, IntakeVars, user, env, motor, rocket, flight, colReads,
                   figs, file, shown, exc, response, served>>

\* lines 186-190: every Exception raised in the try ends here
SrvExcept ==
    /\ pc = "srv_except"
    /\ frag' = ErrorFragment(exc)
    /\ pc' = "srv_home"
    /\ UNCHANGED <<entry, param, IntakeVars, user, env, motor, rocket, flight, colReads,
                   figs, file, shown, exc, response, served>>

\* lines 196-237: the fragment inside the page; Flask answers 200
Page(f) == [status |-> 200, title |-> "Resultado de la Simulacion del CanSat",
            body |-> f]

home ==
    /\ pc = "srv_home"
    /\ response' = <<Page(frag)>>
    /\ served' = served + 1
    /\ pc' = "idle"
    /\ UNCHANGED <<entry, param, IntakeVars, user, env, motor, rocket, flight, colReads,
                   figs, file, shown, exc, frag>>

(***************************************************************************)
(* Specifications.                                                         *)
(***************************************************************************)
\* the calls entered on their own: the dry mass and the burn time
IntakeParams == {4, 6}

InitOf(entries) ==
    /\ entry \in entries
    /\ pc = IF entry \in {"terminal", "intake"} THEN "gfi_prompt" ELSE "idle"
    /\ param \in IF entry = "intake" THEN IntakeParams ELSE {1}
    /\ value_str = <<>> /\ seen = <<>> /\ prompts = 0 /\ diags = 0 /\ result = <<>>
    /\ user = <<>>
    /\ env = NoObj /\ motor = NoObj /\ rocket = NoObj /\ flight = NoFlight
    /\ colReads = {} /\ figs = <<>> /\ file = <<>> /\ shown = <<>>
    /\ exc = NoExc /\ frag = NoFrag /\ response = <<>> /\ served = 0

Init == InitOf({"terminal", "server"})

InitUnits == InitOf({"terminal", "server", "flight", "intake"})

Next ==
    \/ GfiPrompt \/ GfiEOF \/ GfiEmpty \/ GfiFloat \/ GfiInvalid
    \/ TermAssign \/ TermRaise \/ TermEnv \/ TermMotor \/ TermRocket \/ TermFlight
    \/ TermApogee \/ TermSolution \/ TermSolutionRaise
    \/ TermFigure \/ TermPlotAlt \/ TermPlotVel \/ TermPlot3D \/ TermSave \/ TermShow
    \/ SrvRequest \/ SrvEnv \/ SrvMotor \/ SrvRocketArgs \/ SrvRaise \/ SrvExcept \/ home

NextUnits ==
    \/ Next
    \/ UnitEnter \/ SrvRocket \/ SrvFlight \/ SrvApogee \/ SrvCheck \/ SrvPostProcess
    \/ SrvRecheck \/ SrvArray \/ SrvFigAlt \/ SrvPlotAlt \/ SrvEncodeAlt \/ Srv3D
    \/ SrvEncode3D \/ SrvSuccess

Spec == Init /\ [][Next]_vars

SpecUnits == InitUnits /\ [][NextUnits]_vars

(***************************************************************************)
(* The claims.                                                             *)
(***************************************************************************)
ServerSide == entry \in {"server", "flight"}

HasWord(f, w) == \E i \in 1..Len(f.words) : f.words[i] = w

Range(q) == {q[i] : i \in 1..Len(q)}

\* every line drawn on the figures of fs
Lines(fs) == UNION {Range(fs[i].traces) : i \in 1..Len(fs)}

\* C1: in the server every exception raised inside the try of
\* ejecutar_simulacion_y_graficar reaches the except clause and nothing else;
\* the fragment returned then contains the word "Error"; home() answers 200
\* with a page around that fragment; and the server takes the next request.
C1_ExceptionsBecomeErrorPages ==
    ServerSide =>
        /\ pc # "crashed"
        /\ (exc # NoExc => pc \in {"srv_except", "srv_home", "idle"})
        /\ (exc # NoExc /\ pc \in {"srv_home", "idle"} => HasWord(frag, "Error"))
        /\ (exc # NoExc /\ pc = "idle" =>
               /\ Len(response) = 1
               /\ response[1].status = 200
               /\ response[1].body = frag
               /\ HasWord(response[1].body, "Error"))
        /\ (pc = "idle" /\ served < MaxRequests => ENABLED (SrvRequest \/ UnitEnter))

C1_Witness ==
    /\ entry = "server" /\ pc = "idle" /\ served = 2
    /\ exc.kind = "NameError"
    /\ HasWord(response[1].body, "Error")

\* C2: whenever the engine's solution has zero rows or one row, no plotting
\* step has run: no figure exists, nothing was saved, nothing was shown.
C2_DegenerateSkipsPlotting ==
    (flight.made /\ flight.rows <= 1) => (figs = <<>> /\ file = <<>> /\ shown = <<>>)

C4_InvalidReturnsDefault ==
    (seen # <<>> /\ pc \in {"gfi_prompt", "gfi_ret"}) =>
        result = <<IF Class(value_str) = "float" THEN ParseFloat(value_str)
                   ELSE default_value>>

FloatExamples == {[s |-> <<"2">>, v |-> 2000], [s |-> <<"-", "2">>, v |-> 0 - 2000],
                  [s |-> <<"-", ".", "2">>, v |-> 0 - 200],
                  [s |-> <<"2", ".", "2">>, v |-> 2200], [s |-> <<" ", "2">>, v |-> 2000],
                  [s |-> <<"0", "2", ".">>, v |-> 2000], [s |-> <<".", "0", "2">>, v |-> 20],
                  [s |-> <<"0">>, v |-> 0]}

InvalidExamples == {<<"x">>, <<" ">>, <<"-">>, <<".">>, <<"2", "-">>, <<"2", " ", "2">>,
                    <<"-", "-", "2">>, <<"2", "x">>, <<".", ".">>}

\* C4, amended: once a string has been dealt with, the call has returned
\* the parsed float for a numeric string and the default for the empty
\* string; for a non-numeric string it has not returned and is back at the
\* prompt.
C4_InvalidReprompts ==
    (seen # <<>> /\ pc \in {"gfi_prompt", "gfi_ret"}) =>
        /\ Class(value_str) = "float" =>
               pc = "gfi_ret" /\ result = <<ParseFloat(value_str)>>
        /\ Class(value_str) = "empty" =>
               pc = "gfi_ret" /\ result = <<Defaults[param]>>
        /\ Class(value_str) = "invalid" => pc = "gfi_prompt" /\ result = <<>>
        /\ \A e \in FloatExamples : value_str = e.s => result = <<e.v>>
        /\ \A t \in InvalidExamples : value_str = t => result = <<>>

C4_Witness ==
    /\ pc = "gfi_ret"
    /\ seen = <<"invalid", "float">>
    /\ value_str = <<"-", ".", "2">>
    /\ result = <<0 - 200>>

AllButLastInvalid == \A i \in 1..(Len(seen) - 1) : seen[i] = "invalid"

\* C5: in a call of get_float_input every non-numeric string read so far has
\* produced one diagnostic and one new prompt; the call returns at the first
\* string that is empty (the default) or numeric (its value, whatever its
\* sign or size) and not before; a non-numeric string never ends the call
\* or the script.
C5_RepromptProtocol ==
    /\ pc = "gfi_prompt" =>
           /\ \A i \in 1..Len(seen) : seen[i] = "invalid"
           /\ diags = Len(seen) /\ prompts = Len(seen) /\ result = <<>>
    /\ pc = "gfi_read" =>
           /\ AllButLastInvalid
           /\ diags = Len(seen) - 1 /\ prompts = Len(seen) /\ result = <<>>
    /\ pc = "gfi_ret" =>
           /\ AllButLastInvalid
           /\ seen[Len(seen)] \in {"empty", "float"}
           /\ diags = Len(seen) - 1 /\ prompts = Len(seen)
           /\ result = <<IF seen[Len(seen)] = "empty" THEN default_value
                         ELSE ParseFloat(value_str)>>
    /\ (pc = "crashed" /\ exc.at = "intake") => exc.kind = "EOFError"

C5_Witness ==
    /\ pc = "gfi_ret"
    /\ seen = <<"invalid", "invalid", "float">>
    /\ diags = 2
    /\ result[1] < 0

\* the stage a position belongs to: 1 intake, 2 assembly, 3 invocation,
\* 4 rendering, 5 the end of the run or request
StageOf(p) ==
    CASE p \in {"gfi_prompt", "gfi_read", "gfi_ret"} -> 1
      [] p \in {"env", "motor", "rocket", "srv_env", "srv_motor", "srv_rocket_args",
                "srv_rocket"} -> 2
      [] p \in {"flight", "apogee", "solution", "srv_flight", "srv_apogee", "srv_check",
                "srv_post_process", "srv_recheck", "srv_array"} -> 3
      [] p \in {"figure", "plot_alt", "plot_vel", "plot_3d", "save", "show",
                "srv_fig_alt", "srv_plot_alt", "srv_encode_alt", "srv_3d",
                "srv_encode_3d", "srv_success"} -> 4
      [] p \in {"done", "crashed", "exit_warning", "exit_error", "srv_except",
                "srv_home"} -> 5
      [] OTHER -> 0

\* the source line a position stands at
LineOf(p) ==
    CASE p = "gfi_prompt" -> 13 [] p = "gfi_read" -> 15 [] p = "gfi_ret" -> 33
      [] p = "env" -> 44 [] p = "motor" -> 54 [] p = "rocket" -> 75 [] p = "flight" -> 90
      [] p = "apogee" -> 103 [] p = "solution" -> 105 [] p = "figure" -> 118
      [] p = "plot_alt" -> 120 [] p = "plot_vel" -> 123 [] p = "plot_3d" -> 131
      [] p = "save" -> 142 [] p = "show" -> 146
      [] p = "srv_env" -> 57 [] p = "srv_motor" -> 65 [] p = "srv_rocket_args" -> 85
      [] p = "srv_rocket" -> 89 [] p = "srv_flight" -> 109 [] p = "srv_apogee" -> 120
      [] p = "srv_check" -> 123 [] p = "srv_post_process" -> 126
      [] p = "srv_recheck" -> 129 [] p = "srv_array" -> 134 [] p = "srv_fig_alt" -> 146
      [] p = "srv_plot_alt" -> 148 [] p = "srv_encode_alt" -> 159 [] p = "srv_3d" -> 163
      [] p = "srv_encode_3d" -> 178 [] p = "srv_success" -> 183
      [] p = "srv_except" -> 186 [] p = "srv_home" -> 196
      [] p \in {"done", "crashed", "exit_warning", "exit_error"} -> 147
      [] OTHER -> 0

\* what the front-end's own check accepts before it draws
ResultChecked(f) ==
    /\ f.made /\ f.apogeeRead /\ Size(f) > 0
    /\ ServerSide => ~Degenerate(f)

\* C6: within a run or a request no step returns to an earlier stage, past
\* intake no step returns to an earlier line (nothing is run twice), and a
\* step enters or stays in rendering only with the flight built, its apogee
\* read and its solution accepted by the front-end's check.
C6_StagesInOrder ==
    [][(pc # "idle" /\ pc' # "idle" /\ pc' # pc) =>
          /\ StageOf(pc') >= StageOf(pc)
          /\ StageOf(pc) > 1 => LineOf(pc') > LineOf(pc)
          /\ StageOf(pc') = 4 => ResultChecked(flight')]_vars

C6_Witness ==
    /\ entry = "flight" /\ pc = "srv_success"
    /\ flight.postProcessed
    /\ Len(frag.images) = 2

\* C7: with the defaults the assembly yields a motor of burn time 2.0 and a
\* vehicle of dry mass 0.3, and in the server the arguments of the vehicle
\* constructor are evaluated without error.
C7_DefaultsAssemble ==
    /\ (entry = "terminal" /\ rocket.made /\ user = Defaults) =>
           motor.burn_time = 2000 /\ rocket.mass = 300
    /\ entry = "server" => exc.kind # "NameError"

\* the lines this run or request has drawn
Drawn == IF entry = "terminal" THEN Lines(figs) ELSE Lines(frag.images)

HasAlt == \E t \in Drawn :
             t.x = Column(flight, 0) /\ t.y = Column(flight, 3) /\ t.z = <<>>

HasVel == \E t \in Drawn :
             t.x = Column(flight, 0) /\ t.y = Column(flight, 6) /\ t.z = <<>>

Has3D == \E t \in Drawn :
            t.x = Column(flight, 1) /\ t.y = Column(flight, 2) /\ t.z = Column(flight, 3)

RenderDone == \/ entry = "terminal" /\ pc \in {"save", "show", "done"}
              \/ ServerSide /\ pc = "srv_success"

C9_BothFiguresSaved ==
    (entry = "terminal" /\ file # <<>>) =>
        /\ \A i \in 1..Len(figs) : figs[i] \in Range(file[1].figures)
        /\ Len(file[1].name) = 16

====
